---- MODULE Spec2Model ----
(***************************************************************************)
(* gpu-worker: the frame loop of the mirror-gif handler (src/src/handlers.rs) *)
(* and the GPU transform it calls (src/transformations/src/mirror.rs,      *)
(* gpu.rs), as a state machine.  Requests run concurrently and share one   *)
(* device and queue; every wgpu call is one atomic step.                   *)
(***************************************************************************)
EXTENDS Integers, Sequences, FiniteSets, TLC

\* ------------------------------------------------------------------ bounds
NumRequests == 2
MaxFrames == 2
MaxSide == 2
MaxPad == 2
MaxWidth == 130
MaxProcessors == 3

\* ------------------------------------------------------- program constants
\* wgpu::COPY_BYTES_PER_ROW_ALIGNMENT
COPY_BYTES_PER_ROW_ALIGNMENT == 256
\* wgpu::Limits::default().max_texture_dimension_2d
MaxTextureDimension2D == 8192
\* the alpha byte pushed after every RGB triplet
OpaqueAlpha == 255

U16 == 65536

\* `x as u16`
AsU16(x) == x % U16

Min(a, b) == IF a < b THEN a ELSE b

Clamp(x, lo, hi) == IF x < lo THEN lo ELSE IF x > hi THEN hi ELSE x

\* ------------------------------------------------- u32 products, in limbs
\* A product of two u16 values does not fit TLC's integers, so the
\* value hi * 2^16 + lo is kept as the record [hi, lo], lo < 2^16.  It fits
\* u32 iff hi < 2^16.
WideMul16(a, b) ==
    LET a1 == a \div 256
        a0 == a % 256
        b1 == b \div 256
        b0 == b % 256
        p0 == a0 * b0
        p1 == a1 * b0 + a0 * b1
        p2 == a1 * b1
        lo_sum == (p1 % 256) * 256 + p0
    IN  [hi |-> p2 + (p1 \div 256) + (lo_sum \div U16), lo |-> lo_sum % U16]

\* x * k for a small factor k
WideScale(x, k) ==
    [hi |-> x.hi * k + ((x.lo * k) \div U16), lo |-> (x.lo * k) % U16]

WideFitsU32(x) == x.hi < U16

\* the low 32 bits: what a build without overflow checks computes
Wrap32(x) == [hi |-> x.hi % U16, lo |-> x.lo]

\* x = n, for a natural n within TLC's integers
WideEqNat(x, n) == x.hi = n \div U16 /\ x.lo = n % U16

\* a natural n within TLC's integers, in limbs
ToWide(n) == [hi |-> n \div U16, lo |-> n % U16]

\* x + k for a small k
WideAdd(x, k) ==
    [hi |-> x.hi + ((x.lo + k) \div U16), lo |-> (x.lo + k) % U16]

WideLess(x, y) == x.hi < y.hi \/ (x.hi = y.hi /\ x.lo < y.lo)

\* --------------------------------------------------------- normalization
\* (width * height * 4) as usize, evaluated left to right in u32
ExpectedRgbaLen(width, height) == Wrap32(WideScale(WideMul16(width, height), 4))

\* (width * height * 3) as usize
ExpectedRgbLen(width, height) == Wrap32(WideScale(WideMul16(width, height), 3))

\* a multiplication of lines 109-110 leaves the u32 range: a build with
\* overflow checks panics there
NormalizeOverflows(width, height) ==
    ~ WideFitsU32(WideScale(WideMul16(width, height), 4))

\* an expansion that leaves the alpha byte at zero
RgbToRgbaZeroAlpha(buffer) ==
    LET n == Len(buffer)
        chunks == (n + 2) \div 3
    IN  [j \in 1..(n + chunks) |->
            LET q == (j - 1) \div 4
                p == (j - 1) % 4
                s == Min(3, n - 3 * q)
            IN  IF p < s THEN buffer[3 * q + p + 1] ELSE 0]

\* frame.buffer.chunks(3), each chunk followed by the alpha byte: chunk q
\* holds bytes 3q+1 .. 3q+s of the buffer, s = 3 but for a short last chunk
RgbToRgba(buffer) ==
    LET n == Len(buffer)
        chunks == (n + 2) \div 3
    IN  [j \in 1..(n + chunks) |->
            LET q == (j - 1) \div 4
                p == (j - 1) % 4
                s == Min(3, n - 3 * q)
            IN  IF p < s THEN buffer[3 * q + p + 1] ELSE OpaqueAlpha]

\* normalize_frame_to_rgba; checks: the build has overflow checks
normalize_frame_to_rgba(buffer, width, height, checks) ==
    IF checks /\ NormalizeOverflows(width, height) THEN [tag |-> "panic"]
    ELSE IF WideEqNat(ExpectedRgbaLen(width, height), Len(buffer))
         THEN [tag |-> "ok", data |-> buffer]
    ELSE IF WideEqNat(ExpectedRgbLen(width, height), Len(buffer))
         THEN [tag |-> "ok", data |-> RgbToRgba(buffer)]
    ELSE [tag |-> "err", error |-> "InvalidInput"]

\* ------------------------------------------------------------- GPU maths
\* calculate_aligned_bytes_per_row
calculate_aligned_bytes_per_row(width) ==
    LET unpadded_bytes_per_row == 4 * width
        align == COPY_BYTES_PER_ROW_ALIGNMENT
    IN  ((unpadded_bytes_per_row + align - 1) \div align) * align

\* a readback that returns the mapped bytes as they are, padding included
\* a stride rounded down to the alignment
calculate_aligned_bytes_per_row_floor(width, checks) ==
    LET align == COPY_BYTES_PER_ROW_ALIGNMENT
        unpadded_bytes_per_row == Wrap32(WideScale(ToWide(width), 4))
    IN  IF checks /\ ~ WideFitsU32(WideScale(ToWide(width), 4))
        THEN [tag |-> "panic"]
        ELSE [tag |-> "ok",
              value |-> [hi |-> unpadded_bytes_per_row.hi,
                         lo |-> unpadded_bytes_per_row.lo
                                - (unpadded_bytes_per_row.lo % align)]]

\* calculate_aligned_bytes_per_row in u32, for any width: a build with
\* overflow checks panics when 4 * width or the sum leaves the u32 range,
\* a build without them goes on with the low 32 bits; the value is in limbs
calculate_aligned_bytes_per_row_u32(width, checks) ==
    LET align == COPY_BYTES_PER_ROW_ALIGNMENT
        exact == WideAdd(WideScale(ToWide(width), 4), align - 1)
        unpadded_bytes_per_row == Wrap32(WideScale(ToWide(width), 4))
        sum == Wrap32(WideAdd(unpadded_bytes_per_row, align - 1))
    IN  IF checks /\ ~ WideFitsU32(exact) THEN [tag |-> "panic"]
        ELSE [tag |-> "ok",
              value |-> [hi |-> sum.hi, lo |-> sum.lo - (sum.lo % align)]]

remove_padding_kept(data, width, height, padded_bytes_per_row) == data

\* a strip that takes the rows to lie one after the other in the buffer
remove_padding_tight(data, width, height, padded_bytes_per_row) ==
    SubSeq(data, 1, 4 * width * height)

\* a strip whose rows start one byte late
remove_padding_shifted(data, width, height, padded_bytes_per_row) ==
    LET unpadded_bytes_per_row == 4 * width
    IN  IF padded_bytes_per_row = unpadded_bytes_per_row THEN data
        ELSE [i \in 1..(unpadded_bytes_per_row * height) |->
                 LET row == (i - 1) \div unpadded_bytes_per_row
                     row_start == row * padded_bytes_per_row + 1
                 IN  data[row_start + ((i - 1) % unpadded_bytes_per_row) + 1]]

\* remove_padding: row r of the result is data[r * padded .. r * padded +
\* unpadded]
remove_padding(data, width, height, padded_bytes_per_row) ==
    LET unpadded_bytes_per_row == 4 * width
    IN  IF padded_bytes_per_row = unpadded_bytes_per_row THEN data
        ELSE [i \in 1..(unpadded_bytes_per_row * height) |->
                 LET row == (i - 1) \div unpadded_bytes_per_row
                     row_start == row * padded_bytes_per_row
                 IN  data[row_start + ((i - 1) % unpadded_bytes_per_row) + 1]]

\* VERTICES: the texture v coordinate at clip-space y = -1 and y = +1
TexVBottom == 1
TexVTop == 0
TexULeft == 0
TexURight == 1

\* vs_main and the rasteriser: the interpolated texture coordinates of the
\* centre of output pixel (x, y), in units of 1/(2*width) and 1/(2*height)
TexU2(x, width) == TexULeft * (2 * width - 2 * x - 1) + TexURight * (2 * x + 1)

TexV2(y, height) == TexVBottom * (2 * y + 1) + TexVTop * (2 * height - 2 * y - 1)

\* the four bytes of texel (x, y)
TexelAt(data, width, x, y) ==
    SubSeq(data, 4 * (y * width + x) + 1, 4 * (y * width + x) + 4)

\* Rgba8UnormSrgb: the value a shader reads for each colour byte, in units
\* of 1/65535 (the sRGB transfer function), and for the alpha byte
SrgbTable ==
    <<
      0, 20, 40, 60, 80, 99, 119, 139, 159, 179, 199, 219,
      241, 264, 288, 313, 340, 367, 396, 427, 458, 491, 526, 562,
      599, 637, 677, 718, 761, 805, 851, 898, 947, 997, 1048, 1101,
      1156, 1212, 1270, 1330, 1391, 1453, 1517, 1583, 1651, 1720, 1790, 1863,
      1937, 2013, 2090, 2170, 2250, 2333, 2418, 2504, 2592, 2681, 2773, 2866,
      2961, 3058, 3157, 3258, 3360, 3464, 3570, 3678, 3788, 3900, 4014, 4129,
      4247, 4366, 4488, 4611, 4736, 4864, 4993, 5124, 5257, 5392, 5530, 5669,
      5810, 5953, 6099, 6246, 6395, 6547, 6700, 6856, 7014, 7174, 7335, 7500,
      7666, 7834, 8004, 8177, 8352, 8528, 8708, 8889, 9072, 9258, 9445, 9635,
      9828, 10022, 10219, 10417, 10619, 10822, 11028, 11235, 11446, 11658, 11873, 12090,
      12309, 12530, 12754, 12980, 13209, 13440, 13673, 13909, 14146, 14387, 14629, 14874,
      15122, 15371, 15623, 15878, 16135, 16394, 16656, 16920, 17187, 17456, 17727, 18001,
      18277, 18556, 18837, 19121, 19407, 19696, 19987, 20281, 20577, 20876, 21177, 21481,
      21787, 22096, 22407, 22721, 23038, 23357, 23678, 24002, 24329, 24658, 24990, 25325,
      25662, 26001, 26344, 26688, 27036, 27386, 27739, 28094, 28452, 28813, 29176, 29542,
      29911, 30282, 30656, 31033, 31412, 31794, 32179, 32567, 32957, 33350, 33745, 34143,
      34544, 34948, 35355, 35764, 36176, 36591, 37008, 37429, 37852, 38278, 38706, 39138,
      39572, 40009, 40449, 40891, 41337, 41785, 42236, 42690, 43147, 43606, 44069, 44534,
      45002, 45473, 45947, 46423, 46903, 47385, 47871, 48359, 48850, 49344, 49841, 50341,
      50844, 51349, 51858, 52369, 52884, 53401, 53921, 54445, 54971, 55500, 56032, 56567,
      57105, 57646, 58190, 58737, 59287, 59840, 60396, 60955, 61517, 62082, 62650, 63221,
      63795, 64372, 64952, 65535
    >>

SrgbToLinear(c) == SrgbTable[c + 1]

UnormToLinear(a) == a * (SrgbTable[256] \div OpaqueAlpha)

\* and the byte stored for a value a shader writes: the nearest code
LinearToSrgb(x) ==
    LET RECURSIVE Search(_, _)
        Search(lo, hi) ==
            IF lo = hi THEN lo
            ELSE LET mid == (lo + hi + 1) \div 2
                 IN  IF 2 * x >= SrgbTable[mid] + SrgbTable[mid + 1]
                     THEN Search(mid, hi) ELSE Search(lo, mid - 1)
    IN  Search(0, OpaqueAlpha)

LinearToUnorm(x) ==
    LET step == SrgbTable[256] \div OpaqueAlpha
    IN  (2 * x + step) \div (2 * step)

\* textureSample with the clamp-to-edge linear sampler: the coordinate is a
\* texel centre, so the filter returns that texel, decoded
textureSample(data, width, height, u2, v2) ==
    LET texel == TexelAt(data, width, Clamp((u2 - 1) \div 2, 0, width - 1),
                         Clamp((v2 - 1) \div 2, 0, height - 1))
    IN  <<SrgbToLinear(texel[1]), SrgbToLinear(texel[2]),
          SrgbToLinear(texel[3]), UnormToLinear(texel[4])>>

\* a fragment shader that samples at (u, v)
fs_main_unflipped(data, width, height, u2, v2) ==
    textureSample(data, width, height, u2, v2)

\* fs_main: sample at (u, 1 - v)
fs_main(data, width, height, u2, v2) ==
    textureSample(data, width, height, u2, 2 * height - v2)

\* a render pass into a target of format Rgba8Unorm: colours stored linear
RenderPassUnormTarget(data, width, height) ==
    [i \in 1..(4 * width * height) |->
        LET p == (i - 1) \div 4
            x == p % width
            y == p \div width
            ch == ((i - 1) % 4) + 1
            colour == fs_main(data, width, height, TexU2(x, width),
                              TexV2(y, height))
        IN  LinearToUnorm(colour[ch])]

\* the render pass: every pixel of the output texture is one fs_main call,
\* stored with BlendState::REPLACE in the attachment's format
RenderPass(data, width, height) ==
    [i \in 1..(4 * width * height) |->
        LET p == (i - 1) \div 4
            x == p % width
            y == p \div width
            ch == ((i - 1) % 4) + 1
            colour == fs_main(data, width, height, TexU2(x, width), TexV2(y, height))
        IN  IF ch = 4 THEN LinearToUnorm(colour[ch]) ELSE LinearToSrgb(colour[ch])]

\* copy_texture_to_buffer with bytes_per_row = stride into a zeroed buffer
CopyTextureToBuffer(texdata, width, height, stride, size) ==
    [i \in 1..size |->
        LET row == (i - 1) \div stride
            off == (i - 1) % stride
        IN  IF row < height /\ off < 4 * width
            THEN texdata[row * 4 * width + off + 1]
            ELSE 0]

\* ------------------------------------------------------------------ state
VARIABLES
    task,             \* per request: the locals of mirror_gif and its callees
    textures,         \* the device's textures, by id
    buffers,          \* the device's buffers, by id
    queue,            \* command buffers submitted and not yet executed
    pending_maps,     \* map_async requests whose callback has not fired
    norm_in,          \* the arguments of one normalize_frame_to_rgba call
    norm_out,         \* and what it returned
    call_in,          \* the arguments of one call of a GpuProcessor or
                      \* MirrorProcessor function on its own
    call_out,         \* and the values returned so far
    process           \* the operating-system process: its phase, the
                      \* devices requested and the processors constructed

vars ==
    <<task, textures, buffers, queue, pending_maps, norm_in, norm_out,
      call_in, call_out, process>>

Requests == 1..NumRequests

\* ----------------------------------------------------------------- inputs
ColourA == <<100, 150, 200, 255>>
ColourB == <<50, 75, 25, 0>>
Palette == {ColourA, ColourB}
Other(c) == IF c = ColourA THEN ColourB ELSE ColourA

\* a width x height RGBA image: one colour per row, every second column
\* switched to the other colour when flip
Image(width, height, rows, flip) ==
    [i \in 1..(4 * width * height) |->
        LET p == (i - 1) \div 4
            x == p % width
            y == p \div width
            c == IF flip /\ x % 2 = 1 THEN Other(rows[y + 1]) ELSE rows[y + 1]
        IN  c[((i - 1) % 4) + 1]]

Images(width, height) ==
    {Image(width, height, rows, flip) :
        rows \in [1..height -> Palette], flip \in BOOLEAN}

\* the per-frame properties of gif::Frame other than its pixels; transparent
\* -1 is None
MetaA ==
    [delay |-> 10, dispose |-> "Background", transparent |-> 5,
     needs_user_input |-> FALSE, top |-> 0, left |-> 0, interlaced |-> FALSE]
MetaB ==
    [delay |-> 0, dispose |-> "Previous", transparent |-> -1,
     needs_user_input |-> TRUE, top |-> 1, left |-> 2, interlaced |-> TRUE]
Metas == {MetaA, MetaB}

\* a gif::Frame as the decoder returns it with ColorOutput::RGBA: the buffer
\* holds fw * fh * 4 bytes for the frame's own rectangle
Frame(buffer, fw, fh, meta) ==
    [buffer |-> buffer, width |-> fw, height |-> fh, delay |-> meta.delay,
     dispose |-> meta.dispose, transparent |-> meta.transparent,
     needs_user_input |-> meta.needs_user_input, top |-> meta.top,
     left |-> meta.left, interlaced |-> meta.interlaced]

MetaOf(f) ==
    [delay |-> f.delay, dispose |-> f.dispose, transparent |-> f.transparent,
     needs_user_input |-> f.needs_user_input, top |-> f.top, left |-> f.left,
     interlaced |-> f.interlaced]

EmptyFrame == Frame(<<>>, 0, 0, MetaA)

\* the loop setting an uploaded container declares: no loop extension, an
\* endless loop, or a finite number of repetitions
NoRepeat == [kind |-> "absent", count |-> 0]
InputRepeats ==
    {NoRepeat, [kind |-> "infinite", count |-> 0],
     [kind |-> "finite", count |-> 3]}

\* what the decoder makes of the uploaded bytes; decode_gif reads the
\* frames and the canvas and leaves the container's loop setting unread
Gif(kind, width, height, frames) ==
    [kind |-> kind, width |-> width, height |-> height, frames |-> frames,
     repeat |-> NoRepeat]

MalformedGif == Gif("malformed", 0, 0, <<>>)

\* a canvas whose width * height * 4 is 2^32 + 4
OverflowWidth == 25 * 1321
OverflowHeight == 13 * 41 * 61

\* a width whose rows need no padding: 4 * 64 = 256
AlignedWidth == COPY_BYTES_PER_ROW_ALIGNMENT \div 4

\* the frames a canvas is tried with: the full canvas, a 1 x 1 rectangle, and
\* a rectangle of three quarters of the canvas' area
FramesFor(width, height) ==
    {Frame(img, width, height, m) : img \in Images(width, height), m \in Metas}
    \cup {Frame(img, 1, 1, MetaA) : img \in Images(1, 1)}
    \cup (IF (width * height) % 4 = 0
          THEN {Frame(img, (3 * width * height) \div 4, 1, MetaB) :
                    img \in Images((3 * width * height) \div 4, 1)}
          ELSE {})

\* the frames of the strip containers: two different pictures
GoodFrame(k) ==
    IF k % 2 = 1
    THEN Frame(Image(1, 2, <<ColourA, ColourB>>, FALSE), 1, 2, MetaA)
    ELSE Frame(Image(1, 2, <<ColourB, ColourB>>, FALSE), 1, 2, MetaB)

\* a 1 x 1 rectangle on the 1 x 2 canvas: 4 bytes, neither 8 nor 6
SmallFrame == Frame(Image(1, 1, <<ColourA>>, FALSE), 1, 1, MetaB)

\* up to MaxFrames frames, each the full canvas or the small rectangle
StripGifs ==
    UNION {{Gif("ok", 1, 2, [k \in 1..n |-> IF small[k] THEN SmallFrame ELSE GoodFrame(k)]) :
               small \in [1..n -> BOOLEAN]} : n \in 0..MaxFrames}

OverflowGif ==
    Gif("ok", OverflowWidth, OverflowHeight,
        <<Frame(Image(1, 1, <<ColourA>>, FALSE), 1, 1, MetaA)>>)

ThreeQuarterGif ==
    Gif("ok", 2, 2, <<Frame(Image(3, 1, <<ColourA>>, TRUE), 3, 1, MetaB)>>)

\* multipart bodies that carry no GIF: no part named "file", a "file" part
\* of zero bytes, a body the multipart parser rejects
NoFilePayload == Gif("no_file", 0, 0, <<>>)
EmptyFilePayload == Gif("empty_file", 0, 0, <<>>)
BrokenPayload == Gif("multipart_error", 0, 0, <<>>)

FirstGifs ==
    StripGifs
    \cup {OverflowGif, ThreeQuarterGif, MalformedGif}
    \cup {NoFilePayload, EmptyFilePayload, BrokenPayload}

OtherGifs ==
    {Gif("ok", 2, 1, <<Frame(Image(2, 1, <<ColourA>>, TRUE), 2, 1, MetaA)>>)}

\* the containers a single request is tried with: one frame, every canvas
SoloCanvases ==
    ((1..MaxSide) \X (1..MaxSide))
    \cup {<<AlignedWidth, 1>>, <<AlignedWidth, 2>>}

SoloGifs ==
    UNION {{Gif("ok", c[1], c[2], <<f>>) : f \in FramesFor(c[1], c[2])} :
              c \in SoloCanvases}
    \cup {OverflowGif}

\* ---------------------------------------------------------------- process
\* nothing constructed yet
Starting ==
    [phase |-> "starting", devices |-> 0, processors |-> <<>>,
     app_state |-> 0]

\* GpuProcessor::new: request_adapter and request_device; a device/queue
\* pair is made by every call that succeeds
GpuProcessorNew(pr, outcome) ==
    IF outcome = "ok" THEN [pr EXCEPT !.devices = @ + 1] ELSE pr

\* a constructor that takes the device of the first processor, if any
MirrorProcessorNewShared(pr, outcome) ==
    IF outcome /= "ok" THEN pr
    ELSE IF pr.devices >= 1
    THEN [pr EXCEPT !.processors =
             Append(@, [gpu |-> 1, pipeline |-> "Mirror Pipeline",
                        vertex_buffer |-> "VERTICES",
                        index_buffer |-> "INDICES",
                        bind_group_layout |-> "mirror_bind_group_layout"])]
    ELSE [pr EXCEPT !.devices = 1,
                    !.processors =
                        Append(@, [gpu |-> 1, pipeline |-> "Mirror Pipeline",
                                   vertex_buffer |-> "VERTICES",
                                   index_buffer |-> "INDICES",
                                   bind_group_layout |->
                                       "mirror_bind_group_layout"])]

\* MirrorProcessor::new: its own GpuProcessor first, then the buffers, the
\* layout, the shader and the pipeline on that device
MirrorProcessorNew(pr, outcome) ==
    LET with_gpu == GpuProcessorNew(pr, outcome)
    IN  IF outcome /= "ok" THEN with_gpu
        ELSE [with_gpu EXCEPT !.processors =
                 Append(@, [gpu |-> with_gpu.devices,
                            pipeline |-> "Mirror Pipeline",
                            vertex_buffer |-> "VERTICES",
                            index_buffer |-> "INDICES",
                            bind_group_layout |-> "mirror_bind_group_layout"])]

\* the outcomes of GpuProcessor::new
GpuOutcomes == {"ok", "no_adapter", "device_refused"}

\* the server after initialize_app_state succeeded
Serving ==
    [MirrorProcessorNew(Starting, "ok") EXCEPT !.phase = "serving",
                                               !.app_state = 1]

\* ------------------------------------------------------------------- Init
NoResponse ==
    [status |-> 0, error |-> "none", error_type |-> "none", body |-> <<>>]

NewTask(gif, pc) ==
    [pc |-> pc, gif |-> gif, index |-> 0, rgba_data |-> <<>>,
     input_texture |-> 0, output_texture |-> 0, output_buffer |-> 0,
     padded_bytes_per_row |-> 0, rx |-> "none", data |-> <<>>,
     mirrored_data |-> <<>>,
     output_gif |-> <<>>, submissions |-> 0, readbacks |-> 0,
     mirror_processor |-> 0, response |-> NoResponse]

DeviceInit ==
    /\ textures = <<>>
    /\ buffers = <<>>
    /\ queue = <<>>
    /\ pending_maps = {}

NoCall == [width |-> 0, height |-> 0, buffer |-> <<>>]
NoResult == [tag |-> "none"]

Off == NewTask(MalformedGif, "off")

\* two requests at once: the first with any container of FirstGifs
Init ==
    /\ DeviceInit
    /\ \E g1 \in FirstGifs, g2 \in OtherGifs :
          task = [r \in Requests |->
                     IF r = 1 THEN NewTask(g1, "extract")
                     ELSE IF r = 2 THEN NewTask(g2, "extract")
                     ELSE Off]
    /\ norm_in = NoCall
    /\ norm_out = NoResult
    /\ call_in = NoCall
    /\ call_out = <<>>
    /\ process = Serving

\* one request, any canvas of SoloCanvases
InitSolo ==
    /\ DeviceInit
    /\ \E g \in SoloGifs, repeat \in InputRepeats :
          task = [r \in Requests |->
                     IF r = 1
                     THEN NewTask([g EXCEPT !.repeat = repeat], "extract")
                     ELSE Off]
    /\ norm_in = NoCall
    /\ norm_out = NoResult
    /\ call_in = NoCall
    /\ call_out = <<>>
    /\ process = Serving

\* NumRequests tasks at once, each calling mirror_vertically on its own
\* picture against the one processor, as the workers of main do
ConcurrentGif(r) ==
    IF r % 2 = 1
    THEN Gif("ok", 1, 2,
             <<Frame(Image(1, 2, <<IF r % 4 = 1 THEN ColourA ELSE ColourB, ColourB>>, FALSE),
                     1, 2, MetaA)>>)
    ELSE Gif("ok", 2, 1,
             <<Frame(Image(2, 1, <<IF r % 4 = 2 THEN ColourB ELSE ColourA>>, r % 4 = 2),
                     2, 1, MetaB)>>)

InitConcurrent ==
    /\ DeviceInit
    /\ task = [r \in Requests |->
                  [NewTask(ConcurrentGif(r), "upload") EXCEPT
                      !.index = 1,
                      !.mirror_processor = Serving.app_state,
                      !.rgba_data = ConcurrentGif(r).frames[1].buffer]]
    /\ norm_in = NoCall
    /\ norm_out = NoResult
    /\ call_in = NoCall
    /\ call_out = <<>>
    /\ process = Serving

\* ---------------------------------------------------------------- helpers
Restrict(f, S) == [x \in S |-> f[x]]

Zeroes(n) == [i \in 1..n |-> 0]

\* the device hands out the lowest id that is not in use
SmallestFree(used) ==
    CHOOSE i \in 1..(Cardinality(used) + 1) :
        i \notin used /\ \A j \in 1..(i - 1) : j \in used

\* a mapping that files the decoder's and encoder's errors under bad requests
ErrorStatusAllInput(error) ==
    CASE error \in {"Gpu", "WgpuDevice", "Internal", "Io"} -> 500
      [] error \in {"ImageProcessing", "Image"} -> 422
      [] error \in {"InvalidInput", "Multipart", "GifDecode", "GifEncode"} -> 400
      [] error = "Transformation" -> 500

\* a mapping that answers a failed transform as a processing failure
ErrorStatusTransformAsProcessing(error) ==
    CASE error \in {"Gpu", "WgpuDevice", "Internal", "Io"} -> 500
      [] error \in {"ImageProcessing", "Image", "GifDecode", "GifEncode",
                    "Transformation"} -> 422
      [] error \in {"InvalidInput", "Multipart"} -> 400

\* GpuWorkerError::error_response: the status of each variant
ErrorStatus(error) ==
    CASE error \in {"Gpu", "WgpuDevice", "Internal", "Io"} -> 500
      [] error \in {"ImageProcessing", "Image", "GifDecode", "GifEncode"} -> 422
      [] error \in {"InvalidInput", "Multipart"} -> 400
      [] error = "Transformation" -> 500

\* GpuWorkerError::error_response: the "error" member of the JSON body
ErrorType(error) ==
    CASE error \in {"Gpu", "WgpuDevice", "Internal", "Io"} -> "internal_error"
      [] error \in {"ImageProcessing", "Image", "GifDecode", "GifEncode"} ->
             "processing_error"
      [] error \in {"InvalidInput", "Multipart"} -> "invalid_request"
      [] error = "Transformation" -> "transformation_error"

\* a handler that streamed its output: the bytes written so far are sent
FailPartial(t, error) ==
    [t EXCEPT !.pc = "failed", !.rgba_data = <<>>, !.mirrored_data = <<>>,
              !.data = <<>>,
              !.response = [status |-> ErrorStatus(error), error |-> error,
                            error_type |-> ErrorType(error),
                            body |-> t.output_gif]]

\* `?` in the handler: the request ends with the error's response; the
\* local output_gif is dropped with the frames written so far, unsent
Fail(t, error) ==
    [t EXCEPT !.pc = "failed", !.rgba_data = <<>>, !.mirrored_data = <<>>,
              !.data = <<>>,
              !.response = [status |-> ErrorStatus(error), error |-> error,
                            error_type |-> ErrorType(error),
                            body |-> <<>>]]

\* a panic unwinds the handler: no response is built
Panic(t) ==
    [t EXCEPT !.pc = "panicked", !.rgba_data = <<>>, !.mirrored_data = <<>>,
              !.data = <<>>]

Width(t) == t.gif.width
Height(t) == t.gif.height

\* a loop that never advances its iterator
CurrentFrameFirst(t) == t.gif.frames[1]

\* frames.into_iter().enumerate(): the frame of this iteration
CurrentFrame(t) == t.gif.frames[t.index]

\* Encoder::new and set_repeat write the screen descriptor and the loop
\* extension into output_gif as the encoder is made
Chunk(kind, frame) == [kind |-> kind, frame |-> frame]

\* an encoder made without set_repeat: no loop extension is written
create_gif_encoder_default(width, height) ==
    <<Chunk("header", [EmptyFrame EXCEPT !.width = width, !.height = height])>>

create_gif_encoder(width, height) ==
    <<Chunk("header", [EmptyFrame EXCEPT !.width = width, !.height = height]),
      Chunk("repeat_infinite", EmptyFrame)>>

\* ---------------------------------------------------------------- actions
\* an extraction that hands an empty "file" part on to the decoder
ExtractGifUnchecked(r) ==
    /\ process.phase = "serving"
    /\ task[r].pc = "extract"
    /\ LET t == [task[r] EXCEPT !.mirror_processor = process.app_state]
       IN  task' = [task EXCEPT ![r] =
              IF t.gif.kind = "multipart_error" THEN Fail(t, "Multipart")
              ELSE IF t.gif.kind = "no_file" THEN Fail(t, "InvalidInput")
              ELSE [t EXCEPT !.pc = "decode"]]
    /\ UNCHANGED <<textures, buffers, queue, pending_maps, norm_in,
                   norm_out, call_in, call_out, process>>

\* the running server hands the request and app_state's processor to
\* mirror_gif, whose first line is extract_gif_from_multipart: the bytes of
\* the part named "file", or the error that ends the request
ExtractGif(r) ==
    /\ process.phase = "serving"
    /\ task[r].pc = "extract"
    /\ LET t == [task[r] EXCEPT !.mirror_processor = process.app_state]
       IN  task' = [task EXCEPT ![r] =
              IF t.gif.kind = "multipart_error" THEN Fail(t, "Multipart")
              ELSE IF t.gif.kind \in {"no_file", "empty_file"}
              THEN Fail(t, "InvalidInput")
              ELSE [t EXCEPT !.pc = "decode"]]
    /\ UNCHANGED <<textures, buffers, queue, pending_maps, norm_in,
                   norm_out, call_in, call_out, process>>

\* a decode_gif without the emptiness test: the loop runs zero times
DecodeGifUnchecked(r) ==
    /\ task[r].pc = "decode"
    /\ LET t == task[r]
       IN  task' = [task EXCEPT ![r] =
              IF t.gif.kind /= "ok" THEN Fail(t, "GifDecode")
              ELSE [t EXCEPT !.pc = IF Len(t.gif.frames) = 0 THEN "finish"
                                    ELSE "normalize",
                             !.index = 1,
                             !.output_gif =
                                 create_gif_encoder(AsU16(Width(t)),
                                                    AsU16(Height(t)))]]
    /\ UNCHANGED <<textures, buffers, queue, pending_maps, norm_in,
                   norm_out, call_in, call_out, process>>

\* process_gif_mirror up to the frame loop: decode_gif, then the encoder
DecodeGif(r) ==
    /\ task[r].pc = "decode"
    /\ LET t == task[r]
       IN  task' = [task EXCEPT ![r] =
              IF t.gif.kind /= "ok" THEN Fail(t, "GifDecode")
              ELSE IF Len(t.gif.frames) = 0 THEN Fail(t, "InvalidInput")
              ELSE [t EXCEPT !.pc = "normalize", !.index = 1,
                             !.output_gif =
                                 create_gif_encoder(AsU16(Width(t)),
                                                    AsU16(Height(t)))]]
    /\ UNCHANGED <<textures, buffers, queue, pending_maps, norm_in,
                   norm_out, call_in, call_out, process>>

\* encode_mirrored_gif, line 89.  Whether a product that leaves u32 panics
\* or wraps is the build's choice (overflow checks on or off).
\* a handler that reports a rejected frame as an image-processing error
NormalizeAsProcessing(r) ==
    /\ task[r].pc = "normalize"
    /\ \E checks \in BOOLEAN :
          LET t == task[r]
              res == normalize_frame_to_rgba(CurrentFrame(t).buffer, Width(t),
                                             Height(t), checks)
          IN  task' = [task EXCEPT ![r] =
                 IF res.tag = "panic" THEN Panic(t)
                 ELSE IF res.tag = "err" THEN Fail(t, "ImageProcessing")
                 ELSE [t EXCEPT !.pc = "upload", !.rgba_data = res.data]]
    /\ UNCHANGED <<textures, buffers, queue, pending_maps, norm_in,
                   norm_out, call_in, call_out, process>>

Normalize(r) ==
    /\ task[r].pc = "normalize"
    /\ \E checks \in BOOLEAN :
          LET t == task[r]
              res == normalize_frame_to_rgba(CurrentFrame(t).buffer, Width(t),
                                             Height(t), checks)
          IN  task' = [task EXCEPT ![r] =
                 IF res.tag = "panic" THEN Panic(t)
                 ELSE IF res.tag = "err" THEN Fail(t, res.error)
                 ELSE [t EXCEPT !.pc = "upload", !.rgba_data = res.data]]
    /\ UNCHANGED <<textures, buffers, queue, pending_maps, norm_in,
                   norm_out, call_in, call_out, process>>

\* create_texture is a validation error, and with no error scope a panic,
\* for a side of 0 or above the device limit
TextureSizeValid(width, height) ==
    /\ width \in 1..MaxTextureDimension2D
    /\ height \in 1..MaxTextureDimension2D

\* a processor that keeps two texture slots of its own and hands out the
\* second whenever the first is taken
NewTextureIdReused(texs) == IF 1 \in DOMAIN texs THEN 2 ELSE 1

\* GpuProcessor::create_texture: the id of the texture the device makes
NewTextureId(texs) == SmallestFree(DOMAIN texs)

\* mirror_vertically, lines 125-159: the two textures and write_texture
Upload(r) ==
    /\ task[r].pc = "upload"
    /\ LET t == task[r]
           w == Width(t)
           h == Height(t)
           in_id == NewTextureId(textures)
           with_in == (in_id :> [width |-> w, height |-> h, data |-> Zeroes(4 * w * h)])
                          @@ textures
           out_id == NewTextureId(with_in)
       IN  IF ~ TextureSizeValid(w, h) \/ Len(t.rgba_data) < 4 * w * h
           THEN /\ task' = [task EXCEPT ![r] = Panic(t)]
                /\ UNCHANGED textures
           ELSE /\ textures' =
                       (out_id :> [width |-> w, height |-> h,
                                   data |-> Zeroes(4 * w * h)])
                       @@ [with_in EXCEPT ![in_id].data =
                               SubSeq(t.rgba_data, 1, 4 * w * h)]
                /\ task' = [task EXCEPT ![r] =
                       [t EXCEPT !.pc = "submit", !.input_texture = in_id,
                                 !.output_texture = out_id]]
    /\ UNCHANGED <<buffers, queue, pending_maps, norm_in, norm_out, call_in, call_out, process>>

\* a frame loop that submits and goes on to the next frame, leaving the
\* readback for later
SubmitPipelined(r) ==
    /\ task[r].pc = "submit"
    /\ LET t == task[r]
           padded == calculate_aligned_bytes_per_row(Width(t))
           buf == SmallestFree(DOMAIN buffers)
           more == t.index < Len(t.gif.frames)
       IN  /\ buffers' =
                  (buf :> [size |-> padded * Height(t),
                           data |-> Zeroes(padded * Height(t)),
                           map |-> "unmapped"]) @@ buffers
           /\ queue' = Append(queue,
                  [input |-> t.input_texture, output |-> t.output_texture,
                   buffer |-> buf, width |-> Width(t), height |-> Height(t),
                   bytes_per_row |-> padded])
           /\ task' = [task EXCEPT ![r] =
                  [t EXCEPT !.pc = IF more THEN "normalize" ELSE "map",
                            !.index = IF more THEN @ + 1 ELSE @,
                            !.output_buffer = buf,
                            !.padded_bytes_per_row = padded,
                            !.submissions = @ + 1]]
    /\ UNCHANGED <<textures, pending_maps, norm_in, norm_out, call_in, call_out, process>>

\* mirror_vertically, lines 161-246: the bind group, the render pass, the
\* readback buffer, the copy, and queue.submit
Submit(r) ==
    /\ task[r].pc = "submit"
    /\ LET t == task[r]
           padded == calculate_aligned_bytes_per_row(Width(t))
           buf == SmallestFree(DOMAIN buffers)
       IN  /\ buffers' =
                  (buf :> [size |-> padded * Height(t),
                           data |-> Zeroes(padded * Height(t)),
                           map |-> "unmapped"]) @@ buffers
           /\ queue' = Append(queue,
                  [input |-> t.input_texture, output |-> t.output_texture,
                   buffer |-> buf, width |-> Width(t), height |-> Height(t),
                   bytes_per_row |-> padded])
           /\ task' = [task EXCEPT ![r] =
                  [t EXCEPT !.pc = "map", !.output_buffer = buf,
                            !.padded_bytes_per_row = padded,
                            !.submissions = @ + 1]]
    /\ UNCHANGED <<textures, pending_maps, norm_in, norm_out, call_in, call_out, process>>

\* the GPU runs the oldest submitted command buffer: the render pass into
\* the output texture, then the copy into the readback buffer
GpuExecute ==
    /\ queue /= <<>>
    /\ LET cmd == Head(queue)
           rendered == RenderPass(textures[cmd.input].data, cmd.width, cmd.height)
       IN  /\ textures' = [textures EXCEPT ![cmd.output].data = rendered]
           /\ buffers' = [buffers EXCEPT ![cmd.buffer].data =
                  CopyTextureToBuffer(rendered, cmd.width, cmd.height,
                                      cmd.bytes_per_row, buffers[cmd.buffer].size)]
    /\ queue' = Tail(queue)
    /\ UNCHANGED <<task, pending_maps, norm_in, norm_out, call_in, call_out, process>>

\* read_buffer, lines 112-117: the one-shot channel and map_async
MapAsync(r) ==
    /\ task[r].pc = "map"
    /\ pending_maps' = pending_maps \cup {[buffer |-> task[r].output_buffer, tx |-> r]}
    /\ buffers' = [buffers EXCEPT ![task[r].output_buffer].map = "pending"]
    /\ task' = [task EXCEPT ![r] = [@ EXCEPT !.pc = "poll", !.rx = "waiting"]]
    /\ UNCHANGED <<textures, queue, norm_in, norm_out, call_in, call_out, process>>

\* what the receiver of the one-shot channel can get: the callback's Ok,
\* the callback's error, or the sender dropped unsent
MapResults == {"ok", "err", "closed"}

\* a poll that does not wait (Maintain::Poll): it runs the callbacks of the
\* mappings whose work is done and returns
PollNoWait(r) ==
    /\ task[r].pc = "poll"
    /\ LET ready == {m \in pending_maps :
                        \A i \in 1..Len(queue) : queue[i].buffer /= m.buffer}
       IN  /\ \E result \in [ready -> MapResults] :
                 /\ buffers' =
                        [b \in DOMAIN buffers |->
                            IF \E m \in ready : m.buffer = b
                            THEN [buffers[b] EXCEPT !.map =
                                     IF result[CHOOSE m \in ready : m.buffer = b] = "ok"
                                     THEN "mapped" ELSE "unmapped"]
                            ELSE buffers[b]]
                 /\ task' =
                        [q \in Requests |->
                            LET sent == {m \in ready : m.tx = q}
                                t == IF sent = {} THEN task[q]
                                     ELSE [task[q] EXCEPT !.rx = result[CHOOSE m \in sent : TRUE]]
                            IN  IF q = r THEN [t EXCEPT !.pc = "await"] ELSE t]
           /\ pending_maps' = pending_maps \ ready
    /\ UNCHANGED <<textures, queue, norm_in, norm_out, call_in, call_out, process>>

\* a poll whose callbacks all send into the channel of the invocation that
\* polls
PollSendToCaller(r) ==
    /\ task[r].pc = "poll"
    /\ queue = <<>>
    /\ \E result \in [pending_maps -> MapResults] :
          /\ buffers' =
                 [b \in DOMAIN buffers |->
                     IF \E m \in pending_maps : m.buffer = b
                     THEN [buffers[b] EXCEPT !.map =
                              IF result[CHOOSE m \in pending_maps : m.buffer = b] = "ok"
                              THEN "mapped" ELSE "unmapped"]
                     ELSE buffers[b]]
          /\ task' =
                 [q \in Requests |->
                     IF q = r /\ pending_maps /= {}
                     THEN [task[q] EXCEPT
                              !.pc = "await",
                              !.rx = result[CHOOSE m \in pending_maps : TRUE]]
                     ELSE IF q = r THEN [task[q] EXCEPT !.pc = "await"]
                     ELSE task[q]]
    /\ pending_maps' = {}
    /\ UNCHANGED <<textures, queue, norm_in, norm_out, call_in, call_out, process>>

\* read_buffer, line 119: device.poll(Maintain::Wait) returns once the
\* submitted work is done, having run the callback of every mapping that
\* became ready, whichever invocation asked for it
Poll(r) ==
    /\ task[r].pc = "poll"
    /\ queue = <<>>
    /\ \E result \in [pending_maps -> MapResults] :
          /\ buffers' =
                 [b \in DOMAIN buffers |->
                     IF \E m \in pending_maps : m.buffer = b
                     THEN [buffers[b] EXCEPT !.map =
                              IF result[CHOOSE m \in pending_maps : m.buffer = b] = "ok"
                              THEN "mapped" ELSE "unmapped"]
                     ELSE buffers[b]]
          /\ task' =
                 [q \in Requests |->
                     LET sent == {m \in pending_maps : m.tx = q}
                         t == IF sent = {} THEN task[q]
                              ELSE [task[q] EXCEPT !.rx = result[CHOOSE m \in sent : TRUE]]
                     IN  IF q = r THEN [t EXCEPT !.pc = "await"] ELSE t]
    /\ pending_maps' = {}
    /\ UNCHANGED <<textures, queue, norm_in, norm_out, call_in, call_out, process>>

\* mirror_vertically returns: its textures and its buffer are dropped
Release(t) ==
    [t EXCEPT !.input_texture = 0, !.output_texture = 0, !.output_buffer = 0,
              !.padded_bytes_per_row = 0, !.rx = "none"]

\* a read_buffer that maps again when the mapping failed
AwaitRxRetry(r) ==
    /\ task[r].pc = "await"
    /\ task[r].rx \in MapResults
    /\ LET t == task[r]
       IN  IF t.rx = "ok"
           THEN /\ task' = [task EXCEPT ![r] =
                       [t EXCEPT !.pc = "strip", !.readbacks = @ + 1,
                                 !.data = buffers[t.output_buffer].data]]
                /\ buffers' = [buffers EXCEPT ![t.output_buffer].map = "unmapped"]
           ELSE /\ task' = [task EXCEPT ![r] = [t EXCEPT !.pc = "map", !.rx = "none"]]
                /\ UNCHANGED buffers
    /\ UNCHANGED <<textures, queue, pending_maps, norm_in, norm_out, call_in, call_out, process>>

\* read_buffer, lines 121-129: the channel's result; on Ok the mapped bytes
\* are copied and the buffer is unmapped; an error leaves read_buffer and
\* mirror_vertically through `?`, which drops the invocation's resources
\* a readback whose error path returns with the textures and the buffer
\* still held by the device
AwaitRxLeaky(r) ==
    /\ task[r].pc = "await"
    /\ task[r].rx \in MapResults
    /\ LET t == task[r]
       IN  IF t.rx = "ok"
           THEN /\ task' = [task EXCEPT ![r] =
                       [t EXCEPT !.pc = "strip", !.readbacks = @ + 1,
                                 !.data = buffers[t.output_buffer].data]]
                /\ buffers' = [buffers EXCEPT ![t.output_buffer].map = "unmapped"]
                /\ UNCHANGED textures
           ELSE /\ task' = [task EXCEPT ![r] = Release(Fail(t, "Transformation"))]
                /\ UNCHANGED <<textures, buffers>>
    /\ UNCHANGED <<queue, pending_maps, norm_in, norm_out, call_in, call_out,
                   process>>

AwaitRx(r) ==
    /\ task[r].pc = "await"
    /\ task[r].rx \in MapResults
    /\ LET t == task[r]
       IN  IF t.rx = "ok"
           THEN /\ task' = [task EXCEPT ![r] =
                       [t EXCEPT !.pc = "strip", !.readbacks = @ + 1,
                                 !.data = buffers[t.output_buffer].data]]
                /\ buffers' = [buffers EXCEPT ![t.output_buffer].map = "unmapped"]
                /\ UNCHANGED textures
           ELSE /\ task' = [task EXCEPT ![r] = Release(Fail(t, "Transformation"))]
                /\ textures' = Restrict(textures,
                       DOMAIN textures \ {t.input_texture, t.output_texture})
                /\ buffers' = Restrict(buffers, DOMAIN buffers \ {t.output_buffer})
    /\ UNCHANGED <<queue, pending_maps, norm_in, norm_out, call_in, call_out, process>>

\* mirror_vertically, lines 252-257: remove_padding on what read_buffer
\* returned, and the return, which drops the textures and the buffer
StripPadding(r) ==
    /\ task[r].pc = "strip"
    /\ LET t == task[r]
       IN  task' = [task EXCEPT ![r] =
              Release([t EXCEPT !.pc = "encode", !.data = <<>>,
                                !.mirrored_data =
                                    remove_padding(t.data, Width(t), Height(t),
                                                   t.padded_bytes_per_row)])]
    /\ textures' = Restrict(textures,
           DOMAIN textures \ {task[r].input_texture, task[r].output_texture})
    /\ buffers' = Restrict(buffers, DOMAIN buffers \ {task[r].output_buffer})
    /\ UNCHANGED <<queue, pending_maps, norm_in, norm_out, call_in, call_out, process>>

\* mirrored_rgba.chunks(4).flat_map(|rgba| &rgba[..3])
RgbaToRgb(rgba) ==
    [i \in 1..(3 * (Len(rgba) \div 4)) |-> rgba[4 * ((i - 1) \div 3) + ((i - 1) % 3) + 1]]

\* a rebuilt frame that keeps from_rgb_speed's needs_user_input
create_mirrored_frame_partial(original, mirrored_rgba, width, height) ==
    [buffer |-> RgbaToRgb(mirrored_rgba), width |-> width, height |-> height,
     delay |-> original.delay, dispose |-> original.dispose,
     transparent |-> original.transparent,
     needs_user_input |-> FALSE, top |-> original.top,
     left |-> original.left, interlaced |-> original.interlaced]

\* create_mirrored_frame: Frame::from_rgb_speed, then the original's
\* properties
create_mirrored_frame(original, mirrored_rgba, width, height) ==
    [buffer |-> RgbaToRgb(mirrored_rgba), width |-> width, height |-> height,
     delay |-> original.delay, dispose |-> original.dispose,
     transparent |-> original.transparent,
     needs_user_input |-> original.needs_user_input, top |-> original.top,
     left |-> original.left, interlaced |-> original.interlaced]

\* encode_mirrored_gif, lines 91-94: the rebuilt frame goes to the encoder,
\* and the loop moves on.  from_rgb_speed asserts the buffer's length.
WriteFrame(r) ==
    /\ task[r].pc = "encode"
    /\ \E written \in BOOLEAN :
          LET t == task[r]
              w == AsU16(Width(t))
              h == AsU16(Height(t))
              frame == create_mirrored_frame(CurrentFrame(t), t.mirrored_data,
                                             w, h)
          IN  task' = [task EXCEPT ![r] =
                 IF Len(t.mirrored_data) % 4 /= 0
                    \/ Len(frame.buffer) /= w * h * 3
                 THEN Panic(t)
                 ELSE IF ~written THEN Fail(t, "GifEncode")
                 ELSE [t EXCEPT !.output_gif = Append(@, Chunk("frame", frame)),
                                !.mirrored_data = <<>>, !.rgba_data = <<>>,
                                !.index = @ + 1,
                                !.pc = IF t.index = Len(t.gif.frames)
                                       THEN "finish" ELSE "normalize"]]
    /\ UNCHANGED <<textures, buffers, queue, pending_maps, norm_in,
                   norm_out, call_in, call_out, process>>

\* encode_mirrored_gif, lines 96-97, and mirror_gif's Ok: the encoder is
\* dropped, which writes the trailer, and the bytes become the response
Finish(r) ==
    /\ task[r].pc = "finish"
    /\ task' = [task EXCEPT ![r] =
           [@ EXCEPT !.pc = "done",
                     !.response = [status |-> 200, error |-> "none",
                                   error_type |-> "none",
                                   body |-> Append(task[r].output_gif,
                                                   Chunk("trailer", EmptyFrame))]]]
    /\ UNCHANGED <<textures, buffers, queue, pending_maps, norm_in,
                   norm_out, call_in, call_out, process>>

Next ==
    \/ \E r \in Requests :
          \/ ExtractGif(r)
          \/ DecodeGif(r)
          \/ Normalize(r)
          \/ Upload(r)
          \/ Submit(r)
          \/ MapAsync(r)
          \/ Poll(r)
          \/ AwaitRx(r)
          \/ StripPadding(r)
          \/ WriteFrame(r)
          \/ Finish(r)
    \/ GpuExecute

Spec == Init /\ [][Next]_vars

SpecSolo == InitSolo /\ [][Next]_vars

\* the device and the workers do not all stop while one of them can take a
\* step
SpecFair == Init /\ [][Next]_vars /\ WF_vars(Next)

\* the steps of mirror_vertically alone
NextConcurrent ==
    \/ \E r \in Requests :
          \/ Upload(r)
          \/ Submit(r)
          \/ MapAsync(r)
          \/ Poll(r)
          \/ AwaitRx(r)
          \/ StripPadding(r)
    \/ GpuExecute

SpecConcurrent == InitConcurrent /\ [][NextConcurrent]_vars

\* ----------------------------------------------------------------- worker
\* A task gives up its thread only at an .await that is not ready: before
\* the body has arrived (extract_gif_from_multipart's try_next) and at
\* rx.await while nothing was sent; a task that has ended holds no thread.
Suspended(t) ==
    \/ t.pc \in {"off", "extract", "done", "failed", "panicked"}
    \/ t.pc = "await" /\ t.rx \notin MapResults

\* the thread of an actix worker runs one task at a time: r may step when
\* every other task of the worker is suspended
ThreadFreeFor(r) == \A q \in Requests \ {r} : Suspended(task[q])

\* all requests served by the same worker thread; the device runs beside it
NextWorker ==
    \/ \E r \in Requests :
          /\ ThreadFreeFor(r)
          /\ \/ ExtractGif(r)
             \/ DecodeGif(r)
             \/ Normalize(r)
             \/ Upload(r)
             \/ Submit(r)
             \/ MapAsync(r)
             \/ Poll(r)
             \/ AwaitRx(r)
             \/ StripPadding(r)
             \/ WriteFrame(r)
             \/ Finish(r)
    \/ GpuExecute

SpecWorker == Init /\ [][NextWorker]_vars

\* ----------------------------------------------------------------- server
\* the process before main has run; the requests are clients waiting
InitServer ==
    /\ DeviceInit
    /\ \E g1 \in FirstGifs, g2 \in OtherGifs :
          task = [r \in Requests |->
                     IF r = 1 THEN NewTask(g1, "extract")
                     ELSE IF r = 2 THEN NewTask(g2, "extract")
                     ELSE Off]
    /\ norm_in = NoCall
    /\ norm_out = NoResult
    /\ call_in = NoCall
    /\ call_out = <<>>
    /\ process = Starting

\* a main that logs the error and serves without a processor
InitializeAppStateLenient ==
    /\ process.phase = "starting"
    /\ \E outcome \in GpuOutcomes, bound \in BOOLEAN :
          process' =
              LET made == MirrorProcessorNew(process, outcome)
              IN  IF bound
                  THEN [made EXCEPT !.phase = "serving",
                                    !.app_state = Len(made.processors)]
                  ELSE [made EXCEPT !.phase = "exited"]
    /\ UNCHANGED <<task, textures, buffers, queue, pending_maps, norm_in,
                   norm_out, call_in, call_out>>

\* main up to HttpServer::run: initialize_app_state builds the one
\* MirrorProcessor, then the server binds its address; either error is
\* returned from main through `?`
InitializeAppState ==
    /\ process.phase = "starting"
    /\ \E outcome \in GpuOutcomes, bound \in BOOLEAN :
          process' =
              LET made == MirrorProcessorNew(process, outcome)
              IN  IF outcome = "ok" /\ bound
                  THEN [made EXCEPT !.phase = "serving",
                                    !.app_state = Len(made.processors)]
                  ELSE [made EXCEPT !.phase = "exited"]
    /\ UNCHANGED <<task, textures, buffers, queue, pending_maps, norm_in,
                   norm_out, call_in, call_out>>

NextServer ==
    \/ InitializeAppState
    \/ Next

SpecServer == InitServer /\ [][NextServer]_vars

\* ---------------------------------------------------------------- library
\* a program that uses the transformations crate directly, as the benches
\* and tests do: invocations share the first processor behind an Arc
InitLibrary ==
    /\ DeviceInit
    /\ task = [r \in Requests |->
                  [NewTask(ConcurrentGif(r), "upload") EXCEPT
                      !.index = 1,
                      !.mirror_processor = 1,
                      !.rgba_data = ConcurrentGif(r).frames[1].buffer]]
    /\ norm_in = NoCall
    /\ norm_out = NoResult
    /\ call_in = NoCall
    /\ call_out = <<>>
    /\ process = [MirrorProcessorNew(Starting, "ok") EXCEPT !.app_state = 1]

\* one more MirrorProcessor::new().await
NewMirrorProcessor ==
    /\ Len(process.processors) < MaxProcessors
    /\ \E outcome \in GpuOutcomes :
          process' = MirrorProcessorNew(process, outcome)
    /\ UNCHANGED <<task, textures, buffers, queue, pending_maps, norm_in,
                   norm_out, call_in, call_out>>

NextLibrary ==
    \/ NewMirrorProcessor
    \/ NextConcurrent

SpecLibrary == InitLibrary /\ [][NextLibrary]_vars

\* ------------------------------------- normalize_frame_to_rgba on its own
MaxBufferLen == 4 * MaxSide * MaxSide + 1

\* a buffer of n bytes whose neighbours differ
BufferOf(n, k) == [i \in 1..n |-> (i * k) % 256]

NormalizeCalls ==
    {[width |-> c[1], height |-> c[2], buffer |-> BufferOf(n, k)] :
        c \in ((0..MaxSide) \X (0..MaxSide)) \cup {<<OverflowWidth, OverflowHeight>>},
        n \in 0..MaxBufferLen, k \in {1, 77}}

InitNormalize ==
    /\ DeviceInit
    /\ task = [r \in Requests |-> Off]
    /\ norm_in \in NormalizeCalls
    /\ norm_out = NoResult
    /\ call_in = NoCall
    /\ call_out = <<>>
    /\ process = Serving

\* one call of normalize_frame_to_rgba, in either build
ApplyNormalize ==
    /\ norm_out = NoResult
    /\ \E checks \in BOOLEAN :
          norm_out' = normalize_frame_to_rgba(norm_in.buffer, norm_in.width,
                                              norm_in.height, checks)
    /\ UNCHANGED <<task, textures, buffers, queue, pending_maps, norm_in,
                   call_in, call_out, process>>

NextNormalize == ApplyNormalize

SpecNormalize == InitNormalize /\ [][NextNormalize]_vars

\* ------------------------------------------- mirror_vertically on its own
\* MirrorProcessor::mirror_vertically on its success path, as one function:
\* upload, render pass, copy into the padded buffer, readback, strip
mirror_vertically(image_data, width, height) ==
    LET padded_bytes_per_row == calculate_aligned_bytes_per_row(width)
        rendered == RenderPass(image_data, width, height)
        data == CopyTextureToBuffer(rendered, width, height,
                                    padded_bytes_per_row,
                                    padded_bytes_per_row * height)
    IN  remove_padding(data, width, height, padded_bytes_per_row)

\* images of every size up to MaxSide, whose bytes run through all the
\* codes 0..255 from a starting code c
MirrorCalls ==
    {[width |-> w, height |-> h,
      image_data |-> [i \in 1..(4 * w * h) |->
                         (c + 37 * (i - 1)) % 256]] :
        w \in 1..MaxSide, h \in 1..MaxSide, c \in 0..OpaqueAlpha}

InitMirror ==
    /\ DeviceInit
    /\ task = [r \in Requests |-> Off]
    /\ norm_in = NoCall
    /\ norm_out = NoResult
    /\ call_in \in MirrorCalls
    /\ call_out = <<>>
    /\ process = Serving

\* mirror_vertically applied to the image, then to its own result
ApplyMirror ==
    /\ Len(call_out) < 2
    /\ call_out' =
          Append(call_out,
                 mirror_vertically(IF call_out = <<>> THEN call_in.image_data
                                   ELSE call_out[Len(call_out)],
                                   call_in.width, call_in.height))
    /\ UNCHANGED <<task, textures, buffers, queue, pending_maps, norm_in,
                   norm_out, call_in, process>>

NextMirror == ApplyMirror

SpecMirror == InitMirror /\ [][NextMirror]_vars

\* -------------------------------- calculate_aligned_bytes_per_row on its own
\* the largest width whose row still fits u32 with the alignment added, and
\* the widths around the first one whose row of 4 * width bytes does not
LastAlignableWidth == (U16 \div 4) * U16 - (COPY_BYTES_PER_ROW_ALIGNMENT \div 4)

AlignWidths ==
    (0..MaxWidth)
    \cup {MaxTextureDimension2D, U16 - 1}
    \cup ((LastAlignableWidth - 1)..(LastAlignableWidth + 1))
    \cup {(U16 \div 4) * U16, (U16 \div 4) * U16 + 1}

InitAlign ==
    /\ DeviceInit
    /\ task = [r \in Requests |-> Off]
    /\ norm_in = NoCall
    /\ norm_out = NoResult
    /\ call_in \in {[width |-> w] : w \in AlignWidths}
    /\ call_out = <<>>
    /\ process = Serving

\* one call of calculate_aligned_bytes_per_row, in either build
ApplyAlign ==
    /\ call_out = <<>>
    /\ \E checks \in BOOLEAN :
          call_out' = <<calculate_aligned_bytes_per_row_u32(call_in.width,
                                                           checks)>>
    /\ UNCHANGED <<task, textures, buffers, queue, pending_maps, norm_in,
                   norm_out, call_in, process>>

NextAlign == ApplyAlign

SpecAlign == InitAlign /\ [][NextAlign]_vars

\* ------------------------------------ the readback buffer of mirror_vertically
\* (padded_bytes_per_row * height) as u64: the product is taken in u32
output_buffer_size(padded_bytes_per_row, height) ==
    Wrap32(WideMul16(padded_bytes_per_row, height))

\* (row * padded_bytes_per_row) as usize in remove_padding
row_start(row, padded_bytes_per_row) ==
    Wrap32(WideMul16(row, padded_bytes_per_row))

\* a call that creates no texture before it sizes the buffer
output_buffer_unvalidated(width, height, checks) ==
    LET stride == calculate_aligned_bytes_per_row_u32(width, checks)
    IN  IF stride.tag = "panic"
        THEN [tag |-> "panic"]
        ELSE LET padded_bytes_per_row == stride.value.hi * U16 + stride.value.lo
             IN  IF checks /\ ~ WideFitsU32(WideMul16(padded_bytes_per_row,
                                                      height))
                 THEN [tag |-> "panic"]
                 ELSE [tag |-> "ok",
                       padded_bytes_per_row |-> padded_bytes_per_row,
                       size |-> output_buffer_size(padded_bytes_per_row,
                                                   height)]

\* mirror_vertically up to create_buffer: the two textures are created
\* first, then the stride and the buffer size are computed
output_buffer(width, height, checks) ==
    IF ~ TextureSizeValid(width, height) THEN [tag |-> "panic"]
    ELSE LET stride == calculate_aligned_bytes_per_row_u32(width, checks)
         IN  IF stride.tag = "panic"
             THEN [tag |-> "panic"]
             ELSE LET padded_bytes_per_row ==
                          stride.value.hi * U16 + stride.value.lo
                  IN  IF checks /\ ~ WideFitsU32(WideMul16(padded_bytes_per_row,
                                                           height))
                      THEN [tag |-> "panic"]
                      ELSE [tag |-> "ok",
                            padded_bytes_per_row |-> padded_bytes_per_row,
                            size |-> output_buffer_size(padded_bytes_per_row,
                                                        height)]

\* sides around the alignment, around the device limit and at the top of u16
BufferSides ==
    {0, 1, 2, 63, 64, 65, MaxTextureDimension2D \div 2,
     MaxTextureDimension2D - 1, MaxTextureDimension2D,
     MaxTextureDimension2D + 1, U16 - 1}

InitBuffer ==
    /\ DeviceInit
    /\ task = [r \in Requests |-> Off]
    /\ norm_in = NoCall
    /\ norm_out = NoResult
    /\ call_in \in {[width |-> w, height |-> h] :
                       w \in BufferSides, h \in BufferSides}
    /\ call_out = <<>>
    /\ process = Serving

\* one call of mirror_vertically as far as create_buffer, in either build
ApplyOutputBuffer ==
    /\ call_out = <<>>
    /\ \E checks \in BOOLEAN :
          call_out' = <<output_buffer(call_in.width, call_in.height, checks)>>
    /\ UNCHANGED <<task, textures, buffers, queue, pending_maps, norm_in,
                   norm_out, call_in, process>>

NextBuffer == ApplyOutputBuffer

SpecBuffer == InitBuffer /\ [][NextBuffer]_vars

\* ---------------------------------------------- remove_padding on its own
\* a buffer of height rows of stride bytes: the bytes differ along a row,
\* from row to row, and between a row's pixels and its padding
PaddedBufferOf(stride, height, k) ==
    [i \in 1..(stride * height) |->
        (k * i + 5 * ((i - 1) \div stride)) % 256]

\* every stride from 4 * width to MaxPad more, and the aligned one
PaddingCalls ==
    UNION {{[data |-> PaddedBufferOf(stride, h, k), width |-> w, height |-> h,
             padded_bytes_per_row |-> stride] :
               stride \in ((4 * w)..(4 * w + MaxPad))
                            \cup {calculate_aligned_bytes_per_row(w)},
               k \in {1, 3, 77}} :
           w \in 0..MaxSide, h \in 0..MaxSide}

InitPadding ==
    /\ DeviceInit
    /\ task = [r \in Requests |-> Off]
    /\ norm_in = NoCall
    /\ norm_out = NoResult
    /\ call_in \in PaddingCalls
    /\ call_out = <<>>
    /\ process = Serving

\* one call of remove_padding
ApplyRemovePadding ==
    /\ call_out = <<>>
    /\ call_out' = <<remove_padding(call_in.data, call_in.width,
                                    call_in.height,
                                    call_in.padded_bytes_per_row)>>
    /\ UNCHANGED <<task, textures, buffers, queue, pending_maps, norm_in,
                   norm_out, call_in, process>>

NextPadding == ApplyRemovePadding

SpecPadding == InitPadding /\ [][NextPadding]_vars

\* ------------------------------------------------------------- properties
\* the true products width * height * 4 and width * height * 3
TrueRgbaLen(width, height) == WideScale(WideMul16(width, height), 4)
TrueRgbLen(width, height) == WideScale(WideMul16(width, height), 3)

\* the rows of a width x height RGBA picture, last row first
FlippedRows(data, width, height) ==
    [i \in 1..(4 * width * height) |->
        LET row == (i - 1) \div (4 * width)
            j == (i - 1) % (4 * width)
        IN  data[4 * width * (height - 1 - row) + j + 1]]

\* a decoded buffer that stands for a width x height picture
IsPicture(buffer, width, height) ==
    Len(buffer) \in {4 * width * height, 3 * width * height}

\* the RGBA picture it stands for
PictureOf(buffer, width, height) ==
    IF Len(buffer) = 4 * width * height THEN buffer
    ELSE [i \in 1..(4 * width * height) |->
             IF (i - 1) % 4 = 3 THEN 255
             ELSE buffer[3 * ((i - 1) \div 4) + ((i - 1) % 4) + 1]]

\* the RGB bytes of the mirrored picture of a decoded frame
ExpectedPixels(frame, width, height) ==
    LET flipped == FlippedRows(PictureOf(frame.buffer, width, height), width, height)
    IN  [i \in 1..(3 * width * height) |->
            flipped[4 * ((i - 1) \div 3) + ((i - 1) % 3) + 1]]

\* header, loop extension, n frames, trailer
CompleteContainer(body, n) ==
    /\ Len(body) = n + 3
    /\ body[1].kind = "header"
    /\ body[2].kind = "repeat_infinite"
    /\ \A k \in 1..n : body[k + 2].kind = "frame"
    /\ body[n + 3].kind = "trailer"

\* C1: a request whose frame fails to normalise, transform or encode ends
\* there: only the frames before the failing one were written, the caller
\* gets an error (or nothing, on a panic) and no byte of the output; output
\* reaches the caller only as a complete container of a finished request.
C1_FailFast ==
    \A r \in Requests :
        LET t == task[r]
        IN  /\ t.pc /= "done" => t.response.body = <<>>
            /\ t.pc = "failed" =>
                  /\ t.response.status \in {400, 422, 500}
                  /\ t.index >= 1 => Len(t.output_gif) = t.index + 1
            /\ t.pc = "panicked" => t.response = NoResponse
            /\ t.pc = "done" =>
                  /\ t.response.status = 200
                  /\ CompleteContainer(t.response.body, Len(t.gif.frames))

\* the second frame failed after the first was written, and nothing was sent
C1_Witness ==
    \E r \in Requests :
        /\ task[r].pc = "failed"
        /\ task[r].index = 2
        /\ Len(task[r].output_gif) = 3
        /\ task[r].output_gif[3].kind = "frame"
        /\ task[r].response.body = <<>>
        /\ task[r].response.status = 400

\* C2: whenever mirror_vertically is called, the pixel buffer it is given
\* holds exactly width * height * 4 bytes.
C2_BufferLength ==
    \A r \in Requests :
        task[r].pc = "upload" =>
            WideEqNat(TrueRgbaLen(Width(task[r]), Height(task[r])),
                      Len(task[r].rgba_data))

\* C3: a successful mirror_vertically returns exactly width * height * 4
\* bytes, whether or not the rows of the readback buffer were padded.
C3_OutputLength ==
    \A r \in Requests :
        task[r].pc = "encode" =>
            Len(task[r].mirrored_data) = 4 * Width(task[r]) * Height(task[r])

\* a result came back for a canvas whose rows are padded in the readback
C3_Witness ==
    \E r \in Requests :
        /\ task[r].pc = "encode"
        /\ Height(task[r]) = 2
        /\ (4 * Width(task[r])) % COPY_BYTES_PER_ROW_ALIGNMENT /= 0
        /\ Len(task[r].mirrored_data) = 4 * Width(task[r]) * Height(task[r])

\* C4: in the result of mirror_vertically, row r holds the bytes of input
\* row height - 1 - r, byte for byte and in the same column order.
C4_VerticalFlip ==
    \A r \in Requests :
        LET t == task[r]
        IN  t.pc = "encode" =>
                \A row \in 0..(Height(t) - 1), j \in 1..(4 * Width(t)) :
                    t.mirrored_data[4 * Width(t) * row + j]
                        = t.rgba_data[4 * Width(t) * (Height(t) - 1 - row) + j]

\* a 2 x 2 picture with different rows and different columns came back
\* changed
C4_Witness ==
    \E r \in Requests :
        /\ task[r].pc = "encode"
        /\ Width(task[r]) = 2
        /\ Height(task[r]) = 2
        /\ task[r].rgba_data[1] /= task[r].rgba_data[5]
        /\ task[r].rgba_data[1] /= task[r].rgba_data[9]
        /\ task[r].mirrored_data /= task[r].rgba_data

\* C5: every frame written to the output carries the delay, disposal
\* method, transparent index, interlace flag, user-input flag and left/top
\* offsets of the input frame at the same position, and the width and
\* height of the canvas.
C5_Metadata ==
    \A r \in Requests :
        LET t == task[r]
        IN  \A k \in 1..(Len(t.output_gif) - 2) :
                LET out == t.output_gif[k + 2].frame
                    orig == t.gif.frames[k]
                IN  /\ out.delay = orig.delay
                    /\ out.dispose = orig.dispose
                    /\ out.transparent = orig.transparent
                    /\ out.interlaced = orig.interlaced
                    /\ out.needs_user_input = orig.needs_user_input
                    /\ out.left = orig.left
                    /\ out.top = orig.top
                    /\ out.width = Width(t)
                    /\ out.height = Height(t)

\* two frames with different properties were written
C5_Witness ==
    \E r \in Requests :
        /\ task[r].pc = "done"
        /\ Len(task[r].gif.frames) = 2
        /\ MetaOf(task[r].gif.frames[1]) /= MetaOf(task[r].gif.frames[2])
        /\ task[r].gif.frames[2].needs_user_input
        /\ Len(task[r].output_gif) = 4

\* C6: the frames written so far are the mirrored pictures of the first
\* decoded frames, in decoding order; a finished output holds one frame for
\* each decoded frame.
C6_FrameOrder ==
    \A r \in Requests :
        LET t == task[r]
        IN  /\ \A k \in 1..(Len(t.output_gif) - 2) :
                  /\ t.output_gif[k + 2].kind = "frame"
                  /\ IsPicture(t.gif.frames[k].buffer, Width(t), Height(t))
                  /\ t.output_gif[k + 2].frame.buffer
                        = ExpectedPixels(t.gif.frames[k], Width(t), Height(t))
            /\ t.pc = "done" =>
                  /\ Len(t.output_gif) = Len(t.gif.frames) + 2
                  /\ SubSeq(t.response.body, 1, Len(t.output_gif)) = t.output_gif

\* a finished output of two frames with different pictures
C6_Witness ==
    \E r \in Requests :
        /\ task[r].pc = "done"
        /\ Len(task[r].gif.frames) = 2
        /\ task[r].gif.frames[1].buffer /= task[r].gif.frames[2].buffer
        /\ task[r].response.body[3].frame.buffer
              /= task[r].response.body[4].frame.buffer

\* C7: a buffer of exactly width * height * 3 bytes normalises to
\* width * height * 4 bytes: pixel i of the result is the input's three
\* bytes of pixel i followed by 255.
C7_RgbExpansion ==
    (/\ norm_out.tag /= "none"
     /\ WideEqNat(TrueRgbLen(norm_in.width, norm_in.height), Len(norm_in.buffer)))
    => /\ norm_out.tag = "ok"
       /\ Len(norm_out.data) = 4 * norm_in.width * norm_in.height
       /\ \A i \in 0..(norm_in.width * norm_in.height - 1) :
             /\ norm_out.data[4 * i + 1] = norm_in.buffer[3 * i + 1]
             /\ norm_out.data[4 * i + 2] = norm_in.buffer[3 * i + 2]
             /\ norm_out.data[4 * i + 3] = norm_in.buffer[3 * i + 3]
             /\ norm_out.data[4 * i + 4] = 255

\* a 2 x 2 canvas with 12 bytes came back as 16
C7_Witness ==
    /\ norm_out.tag = "ok"
    /\ norm_in.width = 2
    /\ norm_in.height = 2
    /\ Len(norm_in.buffer) = 12
    /\ Len(norm_out.data) = 16
    /\ norm_in.buffer[4] /= 255

\* C8: a buffer whose length is neither width * height * 4 nor
\* width * height * 3 is refused with the invalid-frame-size error, and a
\* buffer of exactly width * height * 4 bytes comes back unchanged.
C8_LengthCheck ==
    norm_out.tag /= "none" =>
        LET n == Len(norm_in.buffer)
            is_rgba == WideEqNat(TrueRgbaLen(norm_in.width, norm_in.height), n)
            is_rgb == WideEqNat(TrueRgbLen(norm_in.width, norm_in.height), n)
        IN  /\ is_rgba => norm_out.tag = "ok" /\ norm_out.data = norm_in.buffer
            /\ (~ is_rgba /\ ~ is_rgb) =>
                  norm_out.tag = "err" /\ norm_out.error = "InvalidInput"

\* the tasks that hold textures
Holding(r) == task[r].input_texture /= 0

ResourcesOf(r) ==
    [textures |-> {task[r].input_texture, task[r].output_texture} \ {0},
     buffers |-> {task[r].output_buffer} \ {0}]

\* C9: tasks that call mirror_vertically at once on one processor hold
\* disjoint textures and buffers, and each gets the result it would get
\* alone: its own picture with the rows reversed.
C9_Isolation ==
    /\ \A r \in Requests :
          /\ task[r].pc = "encode" =>
                task[r].mirrored_data
                    = FlippedRows(task[r].rgba_data, Width(task[r]), Height(task[r]))
          /\ Holding(r) => task[r].input_texture /= task[r].output_texture
    /\ \A r, q \in Requests :
          r /= q =>
              /\ ResourcesOf(r).textures \cap ResourcesOf(q).textures = {}
              /\ ResourcesOf(r).buffers \cap ResourcesOf(q).buffers = {}

\* one task has its result while another, with another picture, has its
\* buffer mapped and its textures alive
C9_Witness ==
    \E r, q \in Requests :
        /\ r /= q
        /\ task[r].pc = "encode"
        /\ task[r].mirrored_data /= task[r].rgba_data
        /\ task[q].pc = "await"
        /\ task[q].rx = "ok"
        /\ Holding(q)
        /\ task[q].rgba_data /= task[r].rgba_data

\* C10: within a request the frames go through the GPU one at a time and in
\* order: frame k is submitted once, after the readback of frame k - 1, and
\* into textures that hold nothing of an earlier frame.
C10_Sequential ==
    \A r \in Requests :
        LET t == task[r]
        IN  /\ t.submissions - t.readbacks \in {0, 1}
            /\ t.pc \in {"normalize", "upload", "submit"} =>
                  t.submissions = t.index - 1 /\ t.readbacks = t.index - 1
            /\ t.pc \in {"map", "poll", "await"} =>
                  t.submissions = t.index /\ t.readbacks = t.index - 1
            /\ t.pc \in {"strip", "encode"} =>
                  t.submissions = t.index /\ t.readbacks = t.index
            /\ t.pc \in {"finish", "done"} =>
                  /\ t.submissions = Len(t.gif.frames)
                  /\ t.readbacks = Len(t.gif.frames)
            /\ t.pc = "submit" =>
                  /\ textures[t.input_texture].data = t.rgba_data
                  /\ textures[t.output_texture].data = Zeroes(Len(t.rgba_data))

\* the second frame is in flight after the first was read back
C10_Witness ==
    \E r \in Requests :
        /\ task[r].pc = "await"
        /\ task[r].index = 2
        /\ task[r].submissions = 2
        /\ task[r].readbacks = 1
        /\ Len(task[r].output_gif) = 3

\* C11: read_buffer copies the mapped range only after the callback sent Ok
\* and the buffer is mapped; when it returns Ok the buffer is unmapped; and a
\* request that polls or waits for the notification does not wait forever.
C11_ReadBuffer ==
    /\ [][\A r \in Requests :
             (task'[r].data /= task[r].data /\ task'[r].data /= <<>>) =>
                 /\ task[r].rx = "ok"
                 /\ buffers[task[r].output_buffer].map = "mapped"]_vars
    /\ [](\A r \in Requests :
             task[r].pc = "strip" =>
                 buffers[task[r].output_buffer].map = "unmapped")
    /\ \A r \in Requests :
          (task[r].pc \in {"poll", "await"}) ~> (task[r].pc \notin {"poll", "await"})

\* read_buffer returned the padded bytes of a two-row picture, the buffer
\* unmapped
C11_Witness ==
    \E r \in Requests :
        /\ task[r].pc = "strip"
        /\ Height(task[r]) = 2
        /\ Len(task[r].data) = 2 * COPY_BYTES_PER_ROW_ALIGNMENT
        /\ task[r].data[1] /= 0
        /\ buffers[task[r].output_buffer].map = "unmapped"

\* C12: when the channel reports a mapping error or is closed unsent, the
\* request fails with the transformation (buffer) error and gets no pixel
\* data; the step submits and maps nothing again, and it leaves the queue,
\* the pending mappings, the other requests and their textures and buffers
\* as they were; a failed request takes no further step.
C12_MapFailure ==
    [][\A r \in Requests :
          /\ (/\ task[r].pc = "await"
              /\ task[r].rx \in {"err", "closed"}
              /\ task'[r] /= task[r]) =>
                /\ task'[r].pc = "failed"
                /\ task'[r].response.error = "Transformation"
                /\ task'[r].response.body = <<>>
                /\ task'[r].data = <<>>
                /\ task'[r].mirrored_data = <<>>
                /\ task'[r].submissions = task[r].submissions
                /\ \A q \in Requests \ {r} : task'[q] = task[q]
                /\ queue' = queue
                /\ pending_maps' = pending_maps
                /\ \A b \in DOMAIN buffers \ {task[r].output_buffer} :
                      b \in DOMAIN buffers' /\ buffers'[b] = buffers[b]
                /\ \A x \in DOMAIN textures \ {task[r].input_texture, task[r].output_texture} :
                      x \in DOMAIN textures' /\ textures'[x] = textures[x]
          /\ task[r].pc = "failed" => task'[r] = task[r]]_vars

\* one request failed in its readback after a single submission, and the
\* other request, served by the same processor, finished
C12_Witness ==
    \E r, q \in Requests :
        /\ r /= q
        /\ task[r].pc = "failed"
        /\ task[r].response.error = "Transformation"
        /\ task[r].submissions = 1
        /\ task[r].readbacks = 0
        /\ task[q].pc = "done"
        /\ task[q].response.status = 200

\* the request has left decode_gif
Decoded(t) == t.pc \notin {"off", "extract", "decode"}

C14_MissingFile ==
    \A r \in Requests :
        LET t == task[r]
        IN  (t.pc /= "off" /\ t.gif.kind \in {"no_file", "empty_file"}) =>
                /\ t.pc \in {"extract", "failed"}
                /\ t.pc = "failed" =>
                       /\ t.response.status = 400
                       /\ t.response.error_type = "invalid_request"
                       /\ t.response.body = <<>>
                /\ t.index = 0
                /\ t.submissions = 0
                /\ t.output_gif = <<>>
                /\ ResourcesOf(r) = [textures |-> {}, buffers |-> {}]

\* a request with an empty "file" part was answered
C14_Witness ==
    \E r \in Requests :
        /\ task[r].gif.kind = "empty_file"
        /\ task[r].pc = "failed"
        /\ task[r].response.status = 400

\* C15: a request whose "file" part holds bytes that are not a decodable
\* container is answered with status 422 and the error type
\* "processing_error", before any frame is processed.
C15_Malformed ==
    \A r \in Requests :
        LET t == task[r]
        IN  (Decoded(t) /\ t.gif.kind = "malformed") =>
                /\ t.pc = "failed"
                /\ t.response.status = 422
                /\ t.response.error_type = "processing_error"
                /\ t.response.body = <<>>
                /\ t.index = 0
                /\ t.submissions = 0

\* the malformed upload was answered
C15_Witness ==
    \E r \in Requests :
        /\ task[r].gif.kind = "malformed"
        /\ task[r].pc = "failed"
        /\ task[r].response.error = "GifDecode"

\* C16 as stated: a request that decoded but failed at some frame for a
\* reason other than the GPU transform (normalization rejected the frame's
\* buffer size, or the write to the encoder failed) is answered with 422.
C16_FrameFailure422 ==
    \A r \in Requests :
        LET t == task[r]
        IN  (t.pc = "failed" /\ t.index >= 1
             /\ t.response.error \in {"InvalidInput", "GifEncode"}) =>
                t.response.status = 422

\* C16 amended: a request that decoded but failed at some frame for a
\* reason other than the GPU transform is answered with 400 and the error
\* type "invalid_request" when normalization rejected the frame's buffer
\* size, and with 422 and the error type "processing_error" when the write
\* to the encoder failed; a frame that normalization rejects has a buffer
\* whose length is neither of the two expected lengths.
C16_FrameFailureStatus ==
    \A r \in Requests :
        LET t == task[r]
        IN  (t.pc = "failed" /\ t.index >= 1) =>
                /\ t.response.error \in
                       {"InvalidInput", "GifEncode", "Transformation"}
                /\ t.response.error = "InvalidInput" =>
                       /\ t.response.status = 400
                       /\ t.response.error_type = "invalid_request"
                       /\ ~ WideEqNat(ExpectedRgbaLen(Width(t), Height(t)),
                                      Len(CurrentFrame(t).buffer))
                       /\ ~ WideEqNat(ExpectedRgbLen(Width(t), Height(t)),
                                      Len(CurrentFrame(t).buffer))
                /\ t.response.error = "GifEncode" =>
                       /\ t.response.status = 422
                       /\ t.response.error_type = "processing_error"
                       /\ t.submissions = t.index

\* one request was refused by normalization, the other by the encoder
C16_Witness ==
    \E r, q \in Requests :
        /\ task[r].pc = "failed" /\ task[r].index >= 1
        /\ task[r].response.error = "InvalidInput"
        /\ task[q].pc = "failed" /\ task[q].index >= 1
        /\ task[q].response.error = "GifEncode"

\* the variants that stand for a GPU or internal failure
GpuErrors == {"Gpu", "WgpuDevice", "Internal", "Io", "Transformation"}

C18_Involution ==
    LET w == call_in.width
        h == call_in.height
        x == call_in.image_data
    IN  /\ Len(call_out) >= 1 =>
              /\ Len(call_out[1]) = 4 * w * h
              /\ \A r \in 0..(h - 1), k \in 1..(4 * w) :
                     call_out[1][4 * w * r + k] = x[4 * w * (h - 1 - r) + k]
        /\ Len(call_out) = 2 => call_out[2] = x

\* an image with more than one row came back after it had been changed
C18_Witness ==
    /\ Len(call_out) = 2
    /\ call_in.height = MaxSide
    /\ call_out[1] /= call_in.image_data
    /\ call_out[2] = call_in.image_data

\* C19: for a stride of at least 4 * width and a buffer of stride * height
\* bytes, remove_padding returns exactly 4 * width * height bytes whose row
\* r is data[r * stride .. r * stride + 4 * width]; when the stride is
\* 4 * width the result is the buffer itself.
C19_RemovePadding ==
    LET w == call_in.width
        h == call_in.height
        stride == call_in.padded_bytes_per_row
        data == call_in.data
    IN  (call_out /= <<>> /\ stride >= 4 * w /\ Len(data) = stride * h) =>
            /\ Len(call_out[1]) = 4 * w * h
            /\ \A r \in 0..(h - 1), k \in 1..(4 * w) :
                   call_out[1][4 * w * r + k] = data[r * stride + k]
            /\ stride = 4 * w => call_out[1] = data

\* rows were taken out of a buffer that has padding
C19_Witness ==
    /\ call_out /= <<>>
    /\ call_in.width >= 1
    /\ call_in.height >= 2
    /\ call_in.padded_bytes_per_row > 4 * call_in.width
    /\ Len(call_out[1]) < Len(call_in.data)

\* C20: round trip: laying the rows that remove_padding returned out again
\* at the same stride gives a buffer of the same length that agrees with
\* the padded buffer at every position outside the padding, that is in
\* the first 4 * width bytes of each row.
C20_RoundTrip ==
    LET w == call_in.width
        h == call_in.height
        stride == call_in.padded_bytes_per_row
        p == call_in.data
    IN  (call_out /= <<>> /\ stride >= 4 * w /\ Len(p) = stride * h) =>
            LET q == CopyTextureToBuffer(call_out[1], w, h, stride, stride * h)
            IN  /\ Len(q) = Len(p)
                /\ \A i \in 1..Len(p) :
                       ((i - 1) % stride) < 4 * w => q[i] = p[i]

\* the re-padded buffer agrees on the pixels and differs in the padding
C20_Witness ==
    /\ call_out /= <<>>
    /\ call_in.width >= 1
    /\ call_in.height >= 2
    /\ call_in.padded_bytes_per_row > 4 * call_in.width
    /\ CopyTextureToBuffer(call_out[1], call_in.width, call_in.height,
                           call_in.padded_bytes_per_row,
                           Len(call_in.data)) /= call_in.data

C22_SubRectangle ==
    \A r \in Requests :
        LET t == task[r]
        IN  /\ (t.pc = "failed" /\ t.index >= 1
                /\ t.response.error = "InvalidInput") =>
                  ~ (CurrentFrame(t).width < Width(t)
                     \/ CurrentFrame(t).height < Height(t))
            /\ \A i \in 1..Len(t.output_gif) :
                  t.output_gif[i].kind = "frame" =>
                      /\ t.output_gif[i].frame.width = AsU16(Width(t))
                      /\ t.output_gif[i].frame.height = AsU16(Height(t))

Started(t) == t.pc \notin {"off", "extract"}

\* C24: in the server the GPU context and the mirror pipeline are
\* constructed exactly once at startup, before any request is served; if
\* the construction fails the server never serves a request; and handling
\* a request never constructs, rebuilds, changes or destroys them.
C24_Startup ==
    /\ [](\A r \in Requests :
             Started(task[r]) =>
                 /\ process.phase = "serving"
                 /\ process.devices = 1
                 /\ Len(process.processors) = 1
                 /\ task[r].mirror_processor = 1)
    /\ [](Len(process.processors) <= 1 /\ process.devices <= 1)
    /\ [](process.phase = "exited" =>
             \A r \in Requests : ~ Started(task[r]))
    /\ [][process.phase /= "starting" => process' = process]_vars

\* a request was answered by the server that had built its processor
C24_Witness ==
    /\ process.phase = "serving"
    /\ process = Serving
    /\ \E r \in Requests :
          task[r].pc = "done" /\ task[r].response.status = 200

\* the steps of one call of mirror_vertically after its textures were made
InsideExecute == {"submit", "map", "poll", "await", "strip"}

\* C25: every transient GPU resource made by one call of mirror_vertically
\* (the two textures, the readback buffer, the submitted commands) belongs
\* to that call alone and is released when the call returns, on success and
\* on every failure, a readback error included: a request outside the call
\* holds none, the device keeps none that no running call owns, and no
\* command or mapping left on the device refers to a released one.
C25_ScopedResources ==
    /\ \A r \in Requests :
          task[r].pc \notin InsideExecute =>
              ResourcesOf(r) = [textures |-> {}, buffers |-> {}]
    /\ DOMAIN textures = UNION {ResourcesOf(r).textures : r \in Requests}
    /\ DOMAIN buffers = UNION {ResourcesOf(r).buffers : r \in Requests}
    /\ \A r, q \in Requests :
          r /= q =>
              /\ ResourcesOf(r).textures \cap ResourcesOf(q).textures = {}
              /\ ResourcesOf(r).buffers \cap ResourcesOf(q).buffers = {}
    /\ \A i \in 1..Len(queue) :
          /\ {queue[i].input, queue[i].output} \subseteq DOMAIN textures
          /\ queue[i].buffer \in DOMAIN buffers
    /\ \A m \in pending_maps : m.buffer \in DOMAIN buffers

\* one call returned a readback error and one returned its pixels; the
\* device holds nothing
C25_Witness ==
    /\ \E r, q \in Requests :
          /\ task[r].pc = "failed"
          /\ task[r].response.error = "Transformation"
          /\ task[q].pc = "done"
    /\ textures = <<>>
    /\ buffers = <<>>

\* C26: waiting for a readback is a suspension point: while a request has
\* submitted its GPU work and asked for the mapping, and the notification
\* has not fired, the thread that runs it is free, so that another request
\* of the same worker that is ready can take its next step.
C26_WaitSuspends ==
    \A r \in Requests :
        (task[r].pc = "poll" /\ task[r].rx = "waiting") =>
            /\ Suspended(task[r])
            /\ \A q \in Requests \ {r} :
                   task[q].pc = "extract" => ThreadFreeFor(q)

\* C27: for every width and height the call accepts, the readback buffer
\* has exactly stride * height bytes, stride being the aligned stride of
\* the width, and every row offset row * stride used when the padding is
\* stripped is exact: no 32-bit product wraps.
C27_BufferSizeExact ==
    (call_out /= <<>> /\ call_out[1].tag = "ok") =>
        LET stride == calculate_aligned_bytes_per_row(call_in.width)
        IN  /\ call_out[1].padded_bytes_per_row = stride
            /\ call_out[1].size = WideMul16(stride, call_in.height)
            /\ \A row \in 0..(call_in.height - 1) :
                   row_start(row, stride) = WideMul16(row, stride)

\* the largest accepted call: both sides at the device limit, the buffer
\* of 2^28 bytes
C27_Witness ==
    /\ call_out /= <<>>
    /\ call_out[1].tag = "ok"
    /\ call_in.width = MaxTextureDimension2D
    /\ call_in.height = MaxTextureDimension2D
    /\ call_out[1].size = [hi |-> U16 \div 16, lo |-> 0]

\* C28: a frame that normalization accepted covers exactly the canvas, its
\* own width * height being the canvas' width * height, and the bytes that
\* go to the transform are the decoder's RGBA bytes unchanged; a frame of
\* another area is never taken for 3-channel data and expanded.
C28_AcceptedCoversCanvas ==
    \A r \in Requests :
        LET t == task[r]
        IN  (t.pc = "upload" /\ t.index >= 1) =>
                /\ CurrentFrame(t).width * CurrentFrame(t).height
                       = Width(t) * Height(t)
                /\ t.rgba_data = CurrentFrame(t).buffer

\* the mappings requested by invocation r whose callback has not run
PendingOf(r) == {m \in pending_maps : m.tx = r}

\* C29: with several invocations pending on the shared device, whichever
\* invocation's poll runs a callback, the callback sends into the channel
\* of the invocation that asked for the mapping. While an invocation is in
\* read_buffer, either its one mapping is pending and it has received
\* nothing, or the mapping is gone and it holds exactly the result of its
\* own buffer; an invocation that asked for no mapping has none pending.
\* A result, once received, is not replaced before it is consumed.
C29_OwnNotification ==
    /\ [](\A r \in Requests :
            LET t == task[r]
            IN  /\ \A m \in PendingOf(r) :
                       /\ t.pc = "poll"
                       /\ m.buffer = t.output_buffer
                /\ t.pc \in {"poll", "await"} =>
                       /\ t.rx \in MapResults \cup {"waiting"}
                       /\ t.rx = "waiting" =>
                              /\ Cardinality(PendingOf(r)) = 1
                              /\ t.pc = "poll"
                       /\ t.rx \in MapResults => PendingOf(r) = {}
                       /\ t.rx = "ok" =>
                              buffers[t.output_buffer].map = "mapped"
                       /\ t.rx \in {"err", "closed"} =>
                              buffers[t.output_buffer].map = "unmapped")
    /\ [][\A r \in Requests :
             (task[r].pc \in {"poll", "await"} /\ task[r].rx \in MapResults
              /\ task'[r].pc \in {"poll", "await"}) =>
                 task'[r].rx = task[r].rx]_vars

\* the poll of one invocation has run the callback of the other: the other
\* has not polled yet and already holds the result of its own buffer, a
\* different one from the poller's
C29_Witness ==
    \E r, q \in Requests :
        /\ r /= q
        /\ task[r].pc = "await" /\ task[r].rx = "ok"
        /\ task[q].pc = "poll" /\ task[q].rx = "err"
        /\ buffers[task[q].output_buffer].map = "unmapped"
        /\ buffers[task[r].output_buffer].map = "mapped"
        /\ pending_maps = {}

\* C30: the loop setting of the output does not depend on the input: every
\* output that reaches the caller carries the endless-loop extension, once,
\* right after the header, whether the input declared an endless loop, a
\* finite count or no loop setting at all.
C30_InfiniteRepeat ==
    \A r \in Requests :
        LET t == task[r]
        IN  (t.pc = "done" /\ t.gif.repeat \in InputRepeats) =>
                /\ t.response.status = 200
                /\ Len(t.response.body) >= 2
                /\ t.response.body[2] = Chunk("repeat_infinite", EmptyFrame)
                /\ \A k \in 1..Len(t.response.body) :
                       t.response.body[k].kind = "repeat_infinite" => k = 2

\* an input that declared three repetitions was answered with an output
\* that loops for ever
C30_Witness ==
    \E r \in Requests :
        /\ task[r].pc = "done"
        /\ task[r].gif.repeat = [kind |-> "finite", count |-> 3]
        /\ task[r].response.body[2].kind = "repeat_infinite"

====
